---- MODULE Spec2Model ----
(***************************************************************************)
(* Spectrometer TN Control firmware (src/main.cpp): the polling loop, the  *)
(* single-character serial command handler, the step engine, the heartbeat *)
(* supervisor and the depressurise routine.                                *)
(*                                                                         *)
(* C booleans are kept as 0/1.  Characters are one-character strings.      *)
(* millis() reads the environment clock `now`; time spent inside a         *)
(* statement (delay(), a blocking read) is time the clock action Tick      *)
(* lets pass.                                                              *)
(***************************************************************************)
EXTENDS Integers, Sequences, FiniteSets, TLC

VARIABLES
  pc,             \* position in loop(): "top","serial","depress","engine","hb"
  started, TNcontrol, TTLControl, decodeFlag, execFlag, simpleTTL, newStepFlag,
  tNow, tPoll, tStepStart, heartBeat,
  sequenceSteps, currentStep, nextStep,
  valveOut,       \* digitalWrite(VALVES[i], .)
  ledOut,         \* digitalWrite(LEDS[i], .)
  rx,             \* bytes waiting in the serial receive buffer
  out,            \* lines printed by the last program step
  now,            \* the millisecond clock behind millis()
  adc3,           \* analogRead(Pressure3)
  hbFresh,        \* observer: heartBeat was assigned since the last timeout reset
  scen            \* observer: progress of the host script  M ; l b<n> ; R

progVars == <<pc, started, TNcontrol, TTLControl, decodeFlag, execFlag, simpleTTL,
              newStepFlag, tNow, tPoll, tStepStart, heartBeat, sequenceSteps,
              currentStep, nextStep, valveOut, ledOut, rx, out>>

vars == <<progVars, now, adc3, hbFresh, scen>>

---------------------------------------------------------------------------
\* Bounds of the model (not program constants)

MaxTime == 10000

TimeStep == 2500

RawReadings == {150, 300}

TTLPatterns == {<<0, 0, 0, 0, 0>>, <<1, 0, 1, 0, 0>>}

---------------------------------------------------------------------------
\* Program constants

SWITCH == 0

\* IN in the source (a reserved word here)
INLET == 1

OUT == 2

VENT == 3

SHORT == 4

NumValves == 8

DEFPollTime == 500

DEFHeartbeatTime == 5000

maxLength == 9

pressureLog == 1

validTypes == <<"b", "d", "n", "e">>

EndStep == [type |-> "e", length |-> 1]

ZeroStep == [type |-> "NUL", length |-> 0]

---------------------------------------------------------------------------
\* Characters

Letters ==
  {"a","b","c","d","e","f","g","h","i","j","k","l","m","n","o","p","q","r","s",
   "t","u","v","w","x","y","z","A","B","C","D","E","F","G","H","I","J","K","L",
   "M","N","O","P","Q","R","S","T","U","V","W","X","Y","Z"}

DigitChars == {"0","1","2","3","4","5","6","7","8","9"}

isAlphaNumeric(c) == c \in Letters \cup DigitChars

isAlpha(c) == c \in Letters

isDigit(c) == c \in DigitChars

DigitVal(c) == CHOOSE d \in 0..9 : ToString(d) = c

isValidType(type) == \E i \in 1..Len(validTypes) : type = validTypes[i]

\* C integer division truncates toward zero
TruncDiv(a, b) == IF a >= 0 THEN a \div b ELSE -((-a) \div b)

\* int convertToBar(int pressure): (pressure-203.53)/0.8248/100 converted to int
ConvertToBar(pressure) == TruncDiv(pressure * 100 - 20353, 8248)

\* convertToBar(..) > 0.1 on an int result
AboveThreshold(raw) == ConvertToBar(raw) * 10 > 1

---------------------------------------------------------------------------
\* Stream::parseInt(): skip (and consume) everything up to the first digit,
\* then consume the run of digits; 0 when no digit arrives.

RECURSIVE SkipNonDigits(_)
SkipNonDigits(s) ==
  IF s = <<>> THEN <<>>
  ELSE IF isDigit(Head(s)) THEN s ELSE SkipNonDigits(Tail(s))

RECURSIVE ParseDigits(_, _)
ParseDigits(s, acc) ==
  IF s # <<>> /\ isDigit(Head(s))
  THEN ParseDigits(Tail(s), acc * 10 + DigitVal(Head(s)))
  ELSE [val |-> acc, rest |-> s]

ParseInt(s) == ParseDigits(SkipNonDigits(s), 0)

\* Serial.peek(): the next byte, or -1 when the buffer is empty
Peek(s) == IF s = <<>> THEN "-1" ELSE Head(s)

---------------------------------------------------------------------------
\* The program state as a record, so that functions of the source are
\* operators from state to state.

St ==
  [pc |-> pc, started |-> started, TNcontrol |-> TNcontrol,
   TTLControl |-> TTLControl, decodeFlag |-> decodeFlag, execFlag |-> execFlag,
   simpleTTL |-> simpleTTL, newStepFlag |-> newStepFlag, tNow |-> tNow,
   tPoll |-> tPoll, tStepStart |-> tStepStart, heartBeat |-> heartBeat,
   sequenceSteps |-> sequenceSteps, currentStep |-> currentStep,
   nextStep |-> nextStep, valveOut |-> valveOut, ledOut |-> ledOut,
   rx |-> rx, out |-> <<>>]

Assign(r) ==
  /\ pc' = r.pc
  /\ started' = r.started
  /\ TNcontrol' = r.TNcontrol
  /\ TTLControl' = r.TTLControl
  /\ decodeFlag' = r.decodeFlag
  /\ execFlag' = r.execFlag
  /\ simpleTTL' = r.simpleTTL
  /\ newStepFlag' = r.newStepFlag
  /\ tNow' = r.tNow
  /\ tPoll' = r.tPoll
  /\ tStepStart' = r.tStepStart
  /\ heartBeat' = r.heartBeat
  /\ sequenceSteps' = r.sequenceSteps
  /\ currentStep' = r.currentStep
  /\ nextStep' = r.nextStep
  /\ valveOut' = r.valveOut
  /\ ledOut' = r.ledOut
  /\ rx' = r.rx
  /\ out' = r.out

\* Serial.println(line)
Emit(st, line) == [st EXCEPT !.out = Append(@, line)]

ValveLine(valve, state) ==
  "LOG: Valve " \o ToString(valve + 1) \o " set to " \o ToString(state)

setValveNoLed(st, valve, state) ==
  [st EXCEPT !.valveOut[valve] = state,
             !.out = Append(@, ValveLine(valve, state))]

setValve(st, valve, state) ==
  [st EXCEPT !.valveOut[valve] = state,
             !.ledOut[valve] = state,
             !.out = Append(@, ValveLine(valve, state))]

\* a run of setValve calls, in order
RECURSIVE SetValves(_, _)
SetValves(st, ops) ==
  IF ops = <<>> THEN st
  ELSE SetValves(setValve(st, ops[1][1], ops[1][2]), Tail(ops))

closeValves(st) == SetValves(st, [i \in 1..NumValves |-> <<i - 1, 0>>])

processStep(st, step) ==
  CASE step.type = "b" ->
         SetValves(st, <<<<SWITCH, 0>>, <<INLET, 1>>, <<OUT, 1>>, <<VENT, 1>>, <<SHORT, 0>>>>)
    [] step.type = "d" ->
         SetValves(st, <<<<INLET, 0>>, <<OUT, 0>>, <<VENT, 0>>, <<SHORT, 0>>>>)
    [] step.type = "n" -> Emit(st, "LOG: Alt bubble step not implemented")
    [] step.type = "e" -> Emit(st, "LOG: End of sequence reached")
    [] OTHER -> Emit(st, "LOG: Unknown step type")

---------------------------------------------------------------------------
\* reset()  (currentStepIndex, which nothing reads, is left out)

resetKeepsStarted(st) ==
  LET s1 == Emit(st, "System Reset, please reconnect")
      s2 == [s1 EXCEPT !.sequenceSteps = [i \in 0..(maxLength - 1) |-> ZeroStep],
                       !.execFlag = 0, !.decodeFlag = 0,
                       !.simpleTTL = 0, !.TNcontrol = 0]
      s3 == closeValves(s2)
  IN [s3 EXCEPT !.tPoll = now]

resetKeepsValves(st) ==
  LET s1 == Emit(st, "System Reset, please reconnect")
      s2 == [s1 EXCEPT !.sequenceSteps = [i \in 0..(maxLength - 1) |-> ZeroStep],
                       !.execFlag = 0, !.decodeFlag = 0,
                       !.simpleTTL = 0, !.TNcontrol = 0]
  IN [s2 EXCEPT !.tPoll = now, !.started = 0]

reset(st) ==
  LET s1 == Emit(st, "System Reset, please reconnect")
      s2 == [s1 EXCEPT !.sequenceSteps = [i \in 0..(maxLength - 1) |-> ZeroStep],
                       !.execFlag = 0, !.decodeFlag = 0,
                       !.simpleTTL = 0, !.TNcontrol = 0]
      s3 == closeValves(s2)
  IN [s3 EXCEPT !.tPoll = now, !.started = 0]

---------------------------------------------------------------------------
\* loadstep(): the result is the new state and the returned bool.  The call
\* site names it loadStep(); the only definition in the file is loadstep().
\* The branch for a byte that reads as -1 needs a 0xFF byte, which the host of
\* this model never sends.  The parsed value is stored through an int; the
\* durations sent here are far below its range.  The time parseInt() waits for
\* more digits passes after tNow was sampled, so this iteration does not see it.

loadstep(st) ==
  IF st.rx # <<>>
  THEN LET input == Head(st.rx)
           s1 == [st EXCEPT !.rx = Tail(@)]
       IN IF ~isValidType(input)
          THEN [st |-> Emit(s1, "LOG: Invalid step type"), ok |-> FALSE]
          ELSE LET s2 == [s1 EXCEPT !.nextStep.type = input]
                   p == ParseInt(s2.rx)
                   s3 == [s2 EXCEPT !.rx = p.rest]
               IN IF p.val = 0 /\ Peek(s3.rx) # "0"
                  THEN [st |-> Emit(s3, "Failed to parse integer from Serial"),
                        ok |-> FALSE]
                  ELSE LET s4 == [s3 EXCEPT !.nextStep.length = p.val]
                       IN [st |-> Emit(s4, "LOG: Loaded step type " \o s4.nextStep.type
                                            \o " with length "
                                            \o ToString(s4.nextStep.length)),
                           ok |-> TRUE]
  ELSE [st |-> Emit(st, "LOG: Expected input, but none received"), ok |-> FALSE]

\* case 'l' of handleSerial
handleLoad(st) ==
  LET r == loadstep(st)
  IN IF r.ok
     THEN IF r.st.newStepFlag = 1
          THEN [r.st EXCEPT !.newStepFlag = 0, !.decodeFlag = 1]
          ELSE Emit(r.st, "WAITSEQ")
     ELSE [Emit(r.st, "ERROR: Failed to load step") EXCEPT !.decodeFlag = 0]

---------------------------------------------------------------------------
\* depressurise(): the part before the while loop.  When the pressure is above
\* the threshold the routine stays in its loop (pc = "depress").

depressurise(st) ==
  LET s1 == Emit(st, "LOG: Depressurising system")
  IN IF AboveThreshold(adc3)
     THEN [SetValves(s1, <<<<SWITCH, 0>>, <<INLET, 0>>, <<OUT, 1>>, <<VENT, 0>>,
                           <<SHORT, 1>>>>)
           EXCEPT !.pc = "depress"]
     ELSE Emit(s1, "LOG: System already depressurised")

depressuriseExitShortOnly(st) ==
  [SetValves(st, <<<<SHORT, 0>>>>) EXCEPT !.pc = "engine"]

\* after the while loop
depressuriseExit(st) ==
  [SetValves(st, <<<<SHORT, 0>>, <<OUT, 0>>>>) EXCEPT !.pc = "engine"]

---------------------------------------------------------------------------
\* handleSerial()

\* case 'R'
startRun(st) ==
  LET s1 == [st EXCEPT !.execFlag = 1, !.tStepStart = now,
                       !.currentStep = st.nextStep]
  IN Emit(processStep(s1, s1.currentStep), "NEWSEQ")

handleRunNoLoadCheck(st) ==
  IF st.TNcontrol = 1
  THEN startRun(st)
  ELSE Emit(st, "LOG: Auto control not enabled")

handleRun(st) ==
  IF st.TNcontrol = 1
  THEN IF st.decodeFlag = 1
       THEN startRun(st)
       ELSE Emit(st, "LOG: No steps loaded yet")
  ELSE Emit(st, "LOG: Auto control not enabled")

\* the per-valve commands: letter -> <<valve, state>>
ValveCmd ==
  [c \in {"Z","z","C","c","V","v","X","x","H","h"} |->
     CASE c = "Z" -> <<SHORT, 1>>  [] c = "z" -> <<SHORT, 0>>
       [] c = "C" -> <<INLET, 1>>  [] c = "c" -> <<INLET, 0>>
       [] c = "V" -> <<OUT, 1>>    [] c = "v" -> <<OUT, 0>>
       [] c = "X" -> <<VENT, 1>>   [] c = "x" -> <<VENT, 0>>
       [] c = "H" -> <<SWITCH, 1>> [] c = "h" -> <<SWITCH, 0>>]

handleSerial(st) ==
  LET input == Head(st.rx)
      s1 == [st EXCEPT !.rx = Tail(@)]
  IN IF isAlpha(input)
     THEN CASE input = "y" -> [Emit(s1, "HEARTBEAT_ACK") EXCEPT !.heartBeat = now]
            [] input = "i" -> s1
            [] input = "R" -> handleRun(s1)
            [] input = "M" ->
                 IF s1.TNcontrol = 0
                 THEN Emit([s1 EXCEPT !.TNcontrol = 1], "LOG: Switching to Auto control")
                 ELSE Emit(s1, "LOG: Already in Auto control mode")
            [] input = "m" ->
                 IF s1.TNcontrol = 1
                 THEN Emit([s1 EXCEPT !.TNcontrol = 0], "LOG: Switching to Manual control")
                 ELSE Emit(s1, "LOG: Already in Manual control mode")
            [] input = "K" -> s1
            [] input = "k" -> s1
            [] input = "T" -> [s1 EXCEPT !.simpleTTL = 1]
            [] input = "t" -> [s1 EXCEPT !.simpleTTL = 0]
            [] input = "s" -> reset(s1)
            [] input = "d" -> depressurise(s1)
            [] input = "l" -> handleLoad(s1)
            [] input \in DOMAIN ValveCmd ->
                 setValve(s1, ValveCmd[input][1], ValveCmd[input][2])
            [] OTHER -> Emit(s1, "LOG: Invalid input")
     ELSE Emit(s1, "LOG: Invalid input, not a letter")

---------------------------------------------------------------------------
\* handleTTL(): t[1..5] are digitalRead(T1..T5)

handleTTL(st, t) ==
  IF st.simpleTTL = 1
  THEN SetValves(st, <<<<INLET, t[1]>>, <<OUT, t[2]>>, <<SHORT, t[3]>>,
                       <<VENT, t[4]>>, <<SWITCH, t[5]>>>>)
  ELSE LET combinedState == t[4] * 8 + t[3] * 4 + t[2] * 2 + t[1]
       IN IF combinedState = 0
          THEN SetValves(st, <<<<INLET, 0>>, <<OUT, 0>>, <<SWITCH, 0>>, <<VENT, 0>>,
                               <<SHORT, 0>>>>)
          ELSE Emit(st, "LOG: Invalid TTL input")

\* readPressure(): the report line (the stored samples are not modelled)
readPressure(st) == IF pressureLog = 1 THEN Emit(st, "P") ELSE st

\* the step engine of loop()
engine(st) ==
  IF st.execFlag = 1
  THEN IF st.currentStep.type # "e"
       THEN IF st.tNow - st.tStepStart >= st.currentStep.length
            THEN LET s1 == [st EXCEPT !.currentStep = st.nextStep]
                     s2 == processStep(s1, s1.currentStep)
                 IN Emit([s2 EXCEPT !.tStepStart = now, !.newStepFlag = 1], "NEWSEQ")
            ELSE st
       ELSE Emit([st EXCEPT !.execFlag = 0, !.currentStep = EndStep,
                            !.nextStep = EndStep], "ENDSEQ")
  ELSE st

heartbeatLapsedEarly(st) == st.tNow - st.heartBeat >= DEFPollTime

\* (long)(tNow - heartBeat) >= (long)DEFHeartbeatTime
heartbeatLapsed(st) == st.tNow - st.heartBeat >= DEFHeartbeatTime

---------------------------------------------------------------------------
\* What the host sends (a bound of the model): the command letters (two of the
\* five valves' on/off pairs), an unrecognised letter, a non-letter, and 'l'
\* followed by a step descriptor.

Commands ==
  {"S","y","i","R","M","m","K","T","t","s","d","l","Z","z","C","c","q","7"}

LoadMsgs ==
  {<<"l","b","1","0">>, <<"l","e","0">>, <<"l","q","5">>, <<"l","b","#">>}

HostMsgs == {<<c>> : c \in Commands} \cup LoadMsgs

---------------------------------------------------------------------------
\* Observers (not program state)

\* the host script  M ; successful load of a bubble step ; R  (heartbeats allowed)
scenNext(st) ==
  LET input == Head(st.rx)
      ld == loadstep([st EXCEPT !.rx = Tail(@)])
  IN CASE input = "y" -> scen
       [] input = "M" -> 1
       [] input = "l" /\ scen = 1 /\ ld.ok /\ ld.st.nextStep.type = "b" -> 2
       [] OTHER -> 0

---------------------------------------------------------------------------
\* Initial state: the globals' initialisers and setup()

Init ==
  /\ pc = "top"
  /\ started = 0
  /\ TNcontrol = 0
  /\ TTLControl = 0
  /\ decodeFlag = 0
  /\ execFlag = 0
  /\ simpleTTL = 0
  /\ newStepFlag = 0
  /\ tNow = 0
  /\ tPoll = 0
  /\ tStepStart = 0
  /\ heartBeat = 0
  /\ sequenceSteps = [i \in 0..(maxLength - 1) |-> ZeroStep]
  /\ currentStep = EndStep
  /\ nextStep = EndStep
  /\ valveOut = [i \in 0..(NumValves - 1) |-> 0]
  /\ ledOut = [i \in 0..(NumValves - 1) |-> 0]
  /\ rx = <<>>
  /\ out = <<>>
  /\ now = 0
  /\ adc3 \in RawReadings
  /\ hbFresh = TRUE
  /\ scen = 0

---------------------------------------------------------------------------
\* Environment.  One pass through the loop body takes far less than TimeStep,
\* so the environment acts between iterations (pc = "top", which is also the
\* start-gate loop) and while depressurise() blocks (pc = "depress").

EnvTurn == pc \in {"top", "depress"}

\* the host writes a message once the previous one has been read
HostSend ==
  /\ EnvTurn
  /\ rx = <<>>
  /\ \E m \in HostMsgs : rx' = m
  /\ UNCHANGED <<pc, started, TNcontrol, TTLControl, decodeFlag, execFlag, simpleTTL,
                 newStepFlag, tNow, tPoll, tStepStart, heartBeat, sequenceSteps,
                 currentStep, nextStep, valveOut, ledOut, out, now, adc3, hbFresh, scen>>

\* time passes
Tick ==
  /\ EnvTurn
  /\ now + TimeStep <= MaxTime
  /\ now' = now + TimeStep
  /\ UNCHANGED <<progVars, adc3, hbFresh, scen>>

\* the pressure on the reference channel changes
SensorChange ==
  /\ EnvTurn
  /\ \E r \in RawReadings \ {adc3} : adc3' = r
  /\ UNCHANGED <<progVars, now, hbFresh, scen>>

---------------------------------------------------------------------------
\* loop()

\* one iteration of  while (started == 0)  that finds a byte
WaitStart ==
  /\ pc = "top"
  /\ started = 0
  /\ rx # <<>>
  /\ LET input == Head(rx)
         s1 == Emit([St EXCEPT !.rx = Tail(@)], "LOG: Received input: " \o input)
     IN /\ IF input = "S"
           THEN Assign([Emit(s1, "LOG: System started")
                        EXCEPT !.started = 1, !.heartBeat = now])
           ELSE Assign(s1)
        /\ hbFresh' = (hbFresh \/ input = "S")
  /\ UNCHANGED <<now, adc3, scen>>

\* tNow = millis(); updateStatus()
LoopBegin ==
  /\ pc = "top"
  /\ started = 1
  /\ Assign([St EXCEPT !.tNow = now, !.pc = "serial"])
  /\ UNCHANGED <<now, adc3, hbFresh, scen>>

\* if (Serial.available()) handleSerial();
SerialStep ==
  /\ pc = "serial"
  /\ LET s0 == [St EXCEPT !.pc = "engine"]
     IN IF rx # <<>>
        THEN /\ Assign(handleSerial(s0))
             /\ hbFresh' = (hbFresh \/ Head(rx) = "y")
             /\ scen' = scenNext(s0)
        ELSE /\ Assign(s0)
             /\ UNCHANGED <<hbFresh, scen>>
  /\ UNCHANGED <<now, adc3>>

\* one test of the while condition in depressurise(); delay(50) is time passing
DepressPoll ==
  /\ pc = "depress"
  /\ IF AboveThreshold(adc3)
     THEN Assign(St)
     ELSE Assign(depressuriseExit(St))
  /\ UNCHANGED <<now, adc3, hbFresh, scen>>

\* the step engine, the TTL handler and the pressure poll
EngineStep ==
  /\ pc = "engine"
  /\ \E t \in TTLPatterns :
       LET s1 == engine([St EXCEPT !.pc = "hb"])
           s2 == IF s1.TTLControl = 1 THEN handleTTL(s1, t) ELSE s1
           s3 == IF s2.tNow - s2.tPoll >= DEFPollTime
                 THEN [readPressure(s2) EXCEPT !.tPoll = s2.tNow]
                 ELSE s2
       IN Assign(s3)
  /\ UNCHANGED <<now, adc3, hbFresh, scen>>

\* the heartbeat check that ends the iteration
HeartbeatStep ==
  /\ pc = "hb"
  /\ LET s0 == [St EXCEPT !.pc = "top"]
     IN IF heartbeatLapsed(s0)
        THEN /\ Assign(reset(s0))
             /\ hbFresh' = FALSE
             /\ scen' = 0
        ELSE /\ Assign(s0)
             /\ UNCHANGED <<hbFresh, scen>>
  /\ UNCHANGED <<now, adc3>>

LoopStep ==
  \/ WaitStart
  \/ LoopBegin
  \/ SerialStep
  \/ DepressPoll
  \/ EngineStep
  \/ HeartbeatStep

Next ==
  \/ HostSend
  \/ Tick
  \/ SensorChange
  \/ LoopStep

Spec == Init /\ [][Next]_vars

---------------------------------------------------------------------------
\* Properties

\* No run ever starts: decodeFlag is set only by a load that finds
\* newStepFlag = 1, newStepFlag only by a running engine, and execFlag only by
\* 'R' with decodeFlag = 1; all three start at 0.
NeverRuns == execFlag = 0 /\ decodeFlag = 0 /\ newStepFlag = 0

\* the step just taken is handleSerial() reading command byte c
SerialHandles(c) == pc = "serial" /\ rx # <<>> /\ Head(rx) = c /\ pc' # "serial"

\* the step just taken is the heartbeat check finding the timeout reached
TimeoutSeen == pc = "hb" /\ tNow - heartBeat >= DEFHeartbeatTime /\ pc' # "hb"

Printed(lines, line) == \E i \in 1..Len(lines) : lines[i] = line

AllClosed(v) == \A i \in 0..(NumValves - 1) : v[i] = 0

BubblePattern(v) ==
  v[INLET] = 1 /\ v[OUT] = 1 /\ v[SWITCH] = 0 /\ v[SHORT] = 0

\* C1: 'R' starts the run (execFlag set) only when TNcontrol = 1 and
\* decodeFlag = 1; otherwise it prints a diagnostic and leaves execFlag,
\* currentStep, tStepStart and every valve output as they were.
C1_RunGated ==
  [][SerialHandles("R") =>
       IF TNcontrol = 1 /\ decodeFlag = 1
       THEN execFlag' = 1
       ELSE /\ UNCHANGED <<execFlag, currentStep, tStepStart, valveOut, ledOut>>
            /\ \/ Printed(out', "LOG: No steps loaded yet")
               \/ Printed(out', "LOG: Auto control not enabled")]_vars

\* an 'R' was refused in auto mode, with a valve open, and nothing started
C1_Witness ==
  /\ out = <<"LOG: No steps loaded yet">>
  /\ TNcontrol = 1
  /\ valveOut[INLET] = 1
  /\ execFlag = 0

\* C2: after 'M', a successful load of a bubble step and then 'R' (no other
\* command but heartbeats in between, no timeout), the sequence is running
\* with the bubble pattern on the valves.
C2_ScriptStartsRun ==
  [][(SerialHandles("R") /\ scen = 2) =>
       (execFlag' = 1 /\ BubblePattern(valveOut'))]_vars

\* C3: a tick that sees the heartbeat timeout reached ends with all 8 valves
\* closed, nothing loaded or running, the stored steps cleared and manual mode.
C3_TimeoutReset ==
  [][TimeoutSeen =>
       /\ AllClosed(valveOut')
       /\ execFlag' = 0
       /\ decodeFlag' = 0
       /\ \A i \in 0..(maxLength - 1) : sequenceSteps'[i] = ZeroStep
       /\ TNcontrol' = 0]_vars

\* a tick is about to see the timeout with a valve open and auto mode on
C3_Witness ==
  /\ pc = "hb"
  /\ tNow - heartBeat >= DEFHeartbeatTime
  /\ valveOut[INLET] = 1
  /\ TNcontrol = 1

\* C4: a timeout reset fires only if the heartbeat clock was refreshed since
\* the previous timeout reset (one reset per breach).
C4_TimeoutOnce == [][TimeoutSeen => hbFresh]_vars

\* after a timeout reset a second full timeout has gone by without activity,
\* and the system is still waiting at the start gate
C4_Witness ==
  /\ ~hbFresh
  /\ started = 0
  /\ pc = "top"
  /\ now - heartBeat >= 2 * DEFHeartbeatTime

\* C5: depressurise() stops polling once its timeout (5000 ms) and one poll
\* interval (50 ms) have gone by since it was called; tNow is the time sampled
\* at the top of the iteration that called it.
C5_DepressBounded == pc = "depress" => now - tNow <= 5000 + 50

\* C6: while TTL control is enabled, a per-valve command or the first step of
\* a run changes no valve output.
C6_TTLExclusive ==
  [][(pc = "serial" /\ rx # <<>> /\ pc' # "serial" /\ simpleTTL = 1
      /\ Head(rx) \in {"Z","z","C","c","V","v","X","x","H","h","R"}) =>
       valveOut' = valveOut]_vars

\* C7: in auto mode or during a run, a per-valve command changes no valve
\* output.
C7_ManualOnly ==
  [][(pc = "serial" /\ rx # <<>> /\ pc' # "serial"
      /\ (TNcontrol = 1 \/ execFlag = 1)
      /\ Head(rx) \in {"Z","z","C","c","V","v","X","x","H","h"}) =>
       valveOut' = valveOut]_vars

\* C10: a load that reports failure leaves nextStep as it was.
C10_FailedLoadKeepsNext ==
  [][(SerialHandles("l") /\ Printed(out', "ERROR: Failed to load step")) =>
       nextStep' = nextStep]_vars

\* the step just taken is handleSerial() reading some byte
SerialReads == pc = "serial" /\ rx # <<>> /\ pc' # "serial"

\* the step just taken is the heartbeat check resetting a started system
TimeoutResets == pc = "hb" /\ pc' = "top" /\ started = 1 /\ started' = 0

---------------------------------------------------------------------------
\* decodeSequence().  Nothing in loop() calls it (the call at line 136 is
\* commented out), so it is checked on its own: DecodeSpec starts from the boot
\* state, lets the host write a descriptor line and calls the function.

\* Serial.readStringUntil(term): the bytes before the terminator, which is
\* consumed; everything buffered when no terminator arrives
RECURSIVE readStringUntil(_, _, _)
readStringUntil(s, term, acc) ==
  IF s = <<>> THEN [line |-> acc, rest |-> <<>>]
  ELSE IF Head(s) = term THEN [line |-> acc, rest |-> Tail(s)]
  ELSE readStringUntil(Tail(s), term, Append(acc, Head(s)))

\* the index after the run of digits that starts at i
RECURSIVE digitsEnd(_, _)
digitsEnd(sequence, i) ==
  IF i <= Len(sequence) /\ isDigit(sequence[i])
  THEN digitsEnd(sequence, i + 1)
  ELSE i

\* String::toInt(): 0 for an empty string
toInt(str) == ParseDigits(str, 0).val

\* the while loop of decodeSequence(); i counts from 1 here
RECURSIVE decodeLoop(_, _, _, _)
decodeLoop(st, sequence, i, stepIndex) ==
  IF i > Len(sequence) THEN st
  ELSE LET stepType == sequence[i]
       IN IF isValidType(stepType)
          THEN LET j == digitsEnd(sequence, i + 1)
                   stepLengthStr == SubSeq(sequence, i + 1, j - 1)
               IN IF stepIndex >= maxLength
                  THEN Emit(st, "LOG: Sequence too long, only first 9 steps will be executed")
                  ELSE decodeLoop([st EXCEPT !.sequenceSteps[stepIndex] =
                                      [type |-> stepType, length |-> toInt(stepLengthStr)]],
                                  sequence, j, stepIndex + 1)
          ELSE [Emit(Emit(st, "LOG: Invalid step type in sequence"), "SEQ: False")
                EXCEPT !.decodeFlag = 0]

decodeSequence(st) ==
  IF st.execFlag = 1
  THEN [Emit(Emit(st, "SEQ: False"),
             "LOG: Sequence already running, please wait for current sequence to end before loading a new one")
        EXCEPT !.decodeFlag = 0]
  ELSE IF st.rx # <<>>
       THEN LET r == readStringUntil(st.rx, "\n", <<>>)
                s1 == [st EXCEPT !.rx = r.rest, !.decodeFlag = 0]
                s2 == decodeLoop(s1, r.line, 1, 0)
            IN [Emit(s2, "SEQ: True") EXCEPT !.decodeFlag = 1]
       ELSE [Emit(Emit(st, "SEQ: False"), "LOG: Expected sequence input, but none received")
             EXCEPT !.decodeFlag = 0]

\* the descriptor lines the host writes (a bound of the model): the spec's
\* example, one with an unknown type, a one-step line, ten steps, and a line
\* without its newline
DecodeLines ==
  {<<"b","1","0","0","d","2","0","0","e","0","\n">>,
   <<"b","1","0","0","q","5","0","\n">>,
   <<"d","5","\n">>,
   <<"n","e","n","e","n","e","n","e","n","e","\n">>,
   <<"n","7">>}

DecodeSend ==
  /\ rx = <<>>
  /\ \E m \in DecodeLines : rx' = m
  /\ UNCHANGED <<pc, started, TNcontrol, TTLControl, decodeFlag, execFlag, simpleTTL,
                 newStepFlag, tNow, tPoll, tStepStart, heartBeat, sequenceSteps,
                 currentStep, nextStep, valveOut, ledOut, out, now, adc3, hbFresh, scen>>

DecodeCall ==
  /\ Assign(decodeSequence(St))
  /\ UNCHANGED <<now, adc3, hbFresh, scen>>

DecodeNext ==
  \/ DecodeSend
  \/ DecodeCall

DecodeSpec == Init /\ [][DecodeNext]_vars

\* the pass/fail lines among those printed
ResultLines(lines) ==
  {i \in 1..Len(lines) : lines[i] = "SEQ: True" \/ lines[i] = "SEQ: False"}

\* C12: a decode that meets an unknown step type leaves decodeFlag = 0 and
\* sequenceSteps as they were.
C12_StrictDecode ==
  [][(rx # <<>> /\ rx' # rx /\ Printed(out', "LOG: Invalid step type in sequence")) =>
       (decodeFlag' = 0 /\ sequenceSteps' = sequenceSteps)]_vars

\* C13: what a call of decodeSequence() prints holds exactly one of
\* 'SEQ: True' and 'SEQ: False'.
C13_OneResultLine == out # <<>> => Cardinality(ResultLines(out)) = 1

---------------------------------------------------------------------------
\* Properties of the loop, continued (checked under Spec)

\* the step just taken is depressurise() returning after its while loop
VentReturns == pc = "depress" /\ pc' = "engine"

\* the step just taken is depressurise() returning without venting
NoVentReturns == SerialHandles("d") /\ pc' = "engine"

\* C15 as stated: whenever depressurise() returns, OUT and SHORT are closed.
C15_SafeOnReturn ==
  [][(VentReturns \/ NoVentReturns) =>
       (valveOut'[OUT] = 0 /\ valveOut'[SHORT] = 0)]_vars

\* C15 as amended: when depressurise() returns after venting, OUT and SHORT
\* are closed; when the pressure was already below the threshold it returns
\* without changing any valve output.
C15_SafeAfterVenting ==
  [][/\ (VentReturns => (valveOut'[OUT] = 0 /\ valveOut'[SHORT] = 0))
     /\ (NoVentReturns => (valveOut' = valveOut /\ ledOut' = ledOut))]_vars

\* depressurise() has just returned from venting
C15_Witness ==
  /\ pc = "engine"
  /\ out = <<"LOG: Valve 5 set to 0", "LOG: Valve 3 set to 0">>
  /\ valveOut[OUT] = 0
  /\ valveOut[SHORT] = 0

\* the command letters handleSerial() has a case for
Recognised ==
  {"y","i","R","M","m","K","k","T","t","s","d","l",
   "Z","z","C","c","V","v","X","x","H","h"}

\* C16: a byte that is no letter, or a letter that is no command, prints its
\* one diagnostic line and changes no valve, mode flag, step slot or the
\* liveness clock.
C16_MalformedOnlyDiagnoses ==
  [][(SerialReads /\ Head(rx) \notin Recognised) =>
       /\ UNCHANGED <<valveOut, ledOut, TNcontrol, simpleTTL, execFlag, decodeFlag,
                      started, currentStep, nextStep, sequenceSteps, heartBeat>>
       /\ out' = IF Head(rx) \in Letters
                 THEN <<"LOG: Invalid input">>
                 ELSE <<"LOG: Invalid input, not a letter">>]_vars

\* a non-letter was just refused in auto mode with a valve open
C16_Witness ==
  /\ pc = "engine"
  /\ out = <<"LOG: Invalid input, not a letter">>
  /\ TNcontrol = 1
  /\ valveOut[INLET] = 1

\* the state of the last setValve(i, .) logged in lines, -1 when there is none
LastSet(lines, i) ==
  LET idx == {k \in 1..Len(lines) : lines[k] \in {ValveLine(i, 0), ValveLine(i, 1)}}
      last == CHOOSE k \in idx : \A m \in idx : m <= k
  IN IF idx = {} THEN -1
     ELSE IF lines[last] = ValveLine(i, 1) THEN 1 ELSE 0

\* C17: after every step each valve output is the state of the last setValve
\* call for it (and is untouched by a step that makes none), and the LED
\* outputs equal the valve outputs.
C17_ValveMirror ==
  [][/\ \A i \in 0..(NumValves - 1) :
          IF LastSet(out', i) = -1
          THEN valveOut'[i] = valveOut[i]
          ELSE valveOut'[i] = LastSet(out', i)
     /\ ledOut' = valveOut']_vars

\* IN was just opened by its command: output and LED both on
C17_Witness ==
  /\ out = <<"LOG: Valve 2 set to 1">>
  /\ valveOut[INLET] = 1
  /\ ledOut[INLET] = 1

\* at the start gate: valves closed, manual mode, nothing running
GateSafe ==
  (pc = "top" /\ started = 0) =>
    (AllClosed(valveOut) /\ TNcontrol = 0 /\ execFlag = 0)

\* the step just taken is the start gate reading a byte
GateReads == pc = "top" /\ started = 0 /\ rx # <<>> /\ rx' # rx

\* C20: whenever loop() is at its start gate the valves are closed, the mode
\* is manual and nothing runs; a byte other than 'S' is consumed there without
\* changing valve or mode state, and 'S' starts the system and sets the
\* heartbeat clock to the current time.
C20_StartGate ==
  /\ []GateSafe
  /\ [][GateReads =>
          /\ UNCHANGED <<valveOut, ledOut, TNcontrol, simpleTTL, execFlag, decodeFlag>>
          /\ IF Head(rx) = "S"
             THEN started' = 1 /\ heartBeat' = now
             ELSE started' = 0 /\ heartBeat' = heartBeat]_vars

\* after a timeout reset a valve command was swallowed at the start gate
C20_Witness ==
  /\ pc = "top"
  /\ started = 0
  /\ ~hbFresh
  /\ out = <<"LOG: Received input: C">>
  /\ AllClosed(valveOut)

====
